---- MODULE Spec2Model ----
(***************************************************************************)
(* Review ledger of the document-review backend (backend/server.js).       *)
(*                                                                         *)
(* The data root holds one directory per model (category).  A directory    *)
(* holds PDF documents and two JSON files: <model>_result.json (the        *)
(* unreviewed collection) and <model>_result_reviewed.json (the reviewed   *)
(* collection).  Every request handler is synchronous: it reads both       *)
(* files, mutates the parsed objects and writes both files back before it  *)
(* returns, so one handler is one step of the server's event loop.         *)
(***************************************************************************)
EXTENDS Integers, FiniteSets, Sequences, TLC

\* ------------------------------------------------------------- bounds
NumDocs == 1        \* ordinary document names in play
NumRecords == 1     \* distinct non-null record objects a client may send

\* ------------------------------------------------------------- names
Models == {"loan", "payroll"}

AllDocNames == <<"a.pdf", "b.pdf", "c.pdf">>
DocNames == {AllDocNames[i] : i \in 1..NumDocs}

\* Property names every parsed ledger object inherits from Object.prototype:
\* a data property holding a function, and the prototype accessor.
ProtoNames == {"constructor", "__proto__"}

Names == DocNames \cup ProtoNames

\* The request carries no (or an empty) file name.
NoName == ""
FileArgs == Names \cup {NoName}

\* ------------------------------------------------------------- JS values
Null == [t |-> "null", id |-> 0]
Undefined == [t |-> "undefined", id |-> 0]
Fn == [t |-> "function", id |-> 0]
ObjectPrototype == [t |-> "object", id |-> 0]
Obj(i) == [t |-> "object", id |-> i]

RecordObjects == {Obj(i) : i \in 1..NumRecords}
\* What a JSON body can carry in its data field: an object, null, or nothing.
DataArgs == RecordObjects \cup {Null, Undefined}

\* !v is false
Truthy(v) == v.t \in {"object", "function"}
\* typeof v === 'object'
TypeofObject(v) == v.t \in {"object", "null"}

\* A parsed ledger is the function from its own property names to values.
EmptyObject == [k \in {} |-> Null]

\* o[k]: own property, else the property inherited from Object.prototype
Get(o, k) ==
    IF k \in DOMAIN o THEN o[k]
    ELSE IF k = "constructor" THEN Fn
    ELSE IF k = "__proto__" THEN ObjectPrototype
    ELSE Undefined

\* o[k] = v: creates or overwrites an own property, except that assigning to
\* the inherited __proto__ accessor replaces the prototype and adds no key
Set(o, k, v) ==
    IF k = "__proto__" /\ k \notin DOMAIN o THEN o
    ELSE [x \in DOMAIN o \cup {k} |-> IF x = k THEN v ELSE o[x]]

\* delete o[k]
Delete(o, k) == [x \in DOMAIN o \ {k} |-> o[x]]

\* Object.keys(o)
Keys(o) == DOMAIN o

\* JSON.stringify(o, null, 4) followed by JSON.parse: own properties whose
\* value is a function or undefined are left out of the text
Stringify(o) ==
    [x \in {k \in DOMAIN o : o[k].t \notin {"function", "undefined"}} |-> o[x]]

\* ------------------------------------------------------------- files
\* A ledger file: absent, text that JSON.parse rejects, or the text of a mapping
NoFile == [kind |-> "none", map |-> EmptyObject]
Corrupt == [kind |-> "corrupt", map |-> EmptyObject]
Json(o) == [kind |-> "json", map |-> o]

\* A ledger file whose text parses to null rather than to a mapping
JsonNull == [kind |-> "null", map |-> EmptyObject]

\* The text writeFileSync stores for a collection: JSON.stringify(null) is "null"
Text(o) == IF o = Null THEN JsonNull ELSE Json(Stringify(o))

\* The other entries of a directory: entry name -> bytes
NoDocs == [n \in {} |-> "orig"]
\* The documents a deployment ships, with their original bytes
Shipped(names) == [n \in names |-> "orig"]

\* A model directory under the data root: whether it exists, the two ledger
\* files listModelDirectory finds in it, and its other entries
NoDir == [dir |-> FALSE, result |-> NoFile, reviewed |-> NoFile, docs |-> NoDocs]

\* Entry names that end in .pdf, whatever the case of the letters
PdfNames ==
    {AllDocNames[i] : i \in 1..Len(AllDocNames)} \cup {"x_y.pdf", "uploaded.pdf"}

\* entries.filter((f) => f.toLowerCase().endsWith('.pdf'))
Pdfs(d) == {n \in DOMAIN d.docs : n \in PdfNames}

VARIABLES
    fs,      \* fs[m]: the directory of model m under the data root
    last,    \* the last request served, its response and the directory before it
    reqs,    \* concurrent clients: reqs[i] is request i and how far it has got
    start,   \* the loan directory when the concurrent requests were sent
    ui       \* the state of the review page in the browser

vars == <<fs, last, reqs, start, ui>>

\* listModelDirectory(model): null when the directory does not exist
listModelDirectory(d) == d.dir

\* one side of readResultsFiles: {} unless the file exists and parses; what
\* JSON.parse returns is kept as it is, a mapping or null
ReadSide(f) ==
    IF f.kind = "json" THEN f.map
    ELSE IF f.kind = "null" THEN Null
    ELSE EmptyObject

\* readResultsFiles(model)
readResultsFiles(d) ==
    IF ~listModelDirectory(d)
    THEN [unreviewed |-> EmptyObject, reviewed |-> EmptyObject]
    ELSE [unreviewed |-> ReadSide(d.result), reviewed |-> ReadSide(d.reviewed)]

\* writeResultsFiles(model, unreviewed, reviewed) under I/O outcome io:
\* "ok", or the write of one file throws ("failU", "failR").  A file that
\* does not exist is skipped.  Yields the directory and whether it threw.
writeResultsFiles(d, unreviewed, reviewed, io) ==
    IF ~listModelDirectory(d) THEN [d |-> d, threw |-> TRUE]
    ELSE IF d.result.kind # "none" /\ io = "failU" THEN [d |-> d, threw |-> TRUE]
    ELSE LET d1 == IF d.result.kind # "none"
                   THEN [d EXCEPT !.result = Text(unreviewed)]
                   ELSE d
         IN IF d.reviewed.kind # "none" /\ io = "failR"
            THEN [d |-> d1, threw |-> TRUE]
            ELSE [d |-> IF d.reviewed.kind # "none"
                        THEN [d1 EXCEPT !.reviewed = Text(reviewed)]
                        ELSE d1,
                  threw |-> FALSE]

IoOutcomes == {"ok", "failU", "failR"}

\* ------------------------------------------------------------- responses
\* An HTTP response: status code and the fields of the JSON body that matter
Resp(code) ==
    [code |-> code, data |-> Undefined, status |-> "none",
     unreviewed |-> {}, reviewed |-> {}, noResult |-> {},
     allData |-> <<>>, models |-> <<>>,
     sent |-> <<>>, bytes |-> "", filename |-> NoName]

\* res.json(x) of a collection: its JSON text, as the client parses it
ToJson(o) == IF o = Null THEN Null ELSE Stringify(o)

\* ------------------------------------------------------------- handlers
\* Each handler yields the directory it leaves and the response it sends.

\* What each mutating handler does to the two parsed objects in memory.

\* A Save that keeps only the entry it writes
SaveMutationAlone(l, file, data) ==
    [unreviewed |-> [n \in {file} |-> data], reviewed |-> l.reviewed]

\* Save: update the file in whichever group it is currently in, a new file
\* goes to unreviewed
SaveMutation(l, file, data) ==
    IF Truthy(Get(l.unreviewed, file))
    THEN [l EXCEPT !.unreviewed = Set(l.unreviewed, file, data)]
    ELSE IF Truthy(Get(l.reviewed, file))
    THEN [l EXCEPT !.reviewed = Set(l.reviewed, file, data)]
    ELSE [l EXCEPT !.unreviewed = Set(l.unreviewed, file, data)]

\* Move from unreviewed to reviewed
PromoteMutation(l, file) ==
    [unreviewed |-> Delete(l.unreviewed, file),
     reviewed |-> Set(l.reviewed, file, Get(l.unreviewed, file))]

\* Move from reviewed to unreviewed
DemoteMutation(l, file) ==
    [unreviewed |-> Set(l.unreviewed, file, Get(l.reviewed, file)),
     reviewed |-> Delete(l.reviewed, file)]

\* The try block's tail: write both objects, respond ok, or 500 on a throw
WriteAndRespond(d, l, io) ==
    LET w == writeResultsFiles(d, l.unreviewed, l.reviewed, io)
    IN [d |-> w.d, resp |-> IF w.threw THEN Resp(500) ELSE Resp(200)]

\* Reading a property of null, or assigning one, throws a TypeError.

\* A Save handler that does not look at what the body holds
PostResultUnchecked(d, file, data, io) ==
    WriteAndRespond(d, SaveMutation(readResultsFiles(d), file, data), io)

\* POST /api/:model/result  { file, data }
PostResult(d, file, data, io) ==
    LET l == readResultsFiles(d)
    IN IF file = NoName \/ ~TypeofObject(data)
       THEN [d |-> d, resp |-> Resp(400)]
       ELSE IF l.unreviewed = Null THEN [d |-> d, resp |-> Resp(500)]
       ELSE IF ~Truthy(Get(l.unreviewed, file)) /\ l.reviewed = Null
       THEN [d |-> d, resp |-> Resp(500)]
       ELSE WriteAndRespond(d, SaveMutation(l, file, data), io)

\* POST /api/:model/mark-reviewed  { file }
MarkReviewed(d, file, io) ==
    LET l == readResultsFiles(d)
    IN IF file = NoName THEN [d |-> d, resp |-> Resp(400)]
       ELSE IF l.unreviewed = Null THEN [d |-> d, resp |-> Resp(500)]
       ELSE IF ~Truthy(Get(l.unreviewed, file)) THEN [d |-> d, resp |-> Resp(404)]
       ELSE IF l.reviewed = Null THEN [d |-> d, resp |-> Resp(500)]
       ELSE WriteAndRespond(d, PromoteMutation(l, file), io)

\* POST /api/:model/mark-unreviewed  { file }
MarkUnreviewed(d, file, io) ==
    LET l == readResultsFiles(d)
    IN IF file = NoName THEN [d |-> d, resp |-> Resp(400)]
       ELSE IF l.reviewed = Null THEN [d |-> d, resp |-> Resp(500)]
       ELSE IF ~Truthy(Get(l.reviewed, file)) THEN [d |-> d, resp |-> Resp(404)]
       ELSE IF l.unreviewed = Null THEN [d |-> d, resp |-> Resp(500)]
       ELSE WriteAndRespond(d, DemoteMutation(l, file), io)

\* GET /api/:model/result?file=   (a throw here is answered 500 by Express)
GetResult(d, file) ==
    LET l == readResultsFiles(d)
    IN IF file = NoName THEN Resp(400)
       ELSE IF l.unreviewed = Null THEN Resp(500)
       ELSE IF ~Truthy(Get(l.unreviewed, file)) /\ l.reviewed = Null THEN Resp(500)
       ELSE LET du == Get(l.unreviewed, file)
                data == IF Truthy(du) THEN du ELSE Get(l.reviewed, file)
                status == IF Truthy(du) THEN "unreviewed" ELSE "reviewed"
            IN IF ~Truthy(data) THEN Resp(404)
               ELSE [Resp(200) EXCEPT !.data = data, !.status = status]

\* GET /api/:model/files   (Object.keys(null) throws)
GetFiles(d) ==
    LET l == readResultsFiles(d)
    IN IF ~listModelDirectory(d) THEN Resp(404)
       ELSE IF l.unreviewed = Null \/ l.reviewed = Null THEN Resp(500)
       ELSE LET allResultFiles == Keys(l.unreviewed) \cup Keys(l.reviewed)
            IN [Resp(200) EXCEPT
                   !.unreviewed = Keys(l.unreviewed),
                   !.reviewed = Keys(l.reviewed),
                   !.noResult = {n \in Pdfs(d) : n \notin allResultFiles}]

\* GET /api/:model/download-data: both collections as loaded, whether or not
\* the directory exists
DownloadData(d) ==
    LET l == readResultsFiles(d)
    IN [Resp(200) EXCEPT
           !.allData = <<[unreviewed |-> ToJson(l.unreviewed),
                          reviewed |-> ToJson(l.reviewed)]>>]

\* One entry of GET /api/models
ModelEntry(m, d) ==
    [model |-> m, pdfs |-> Pdfs(d),
     unreviewedCount |-> Cardinality(Keys(readResultsFiles(d).unreviewed)),
     reviewedCount |-> Cardinality(Keys(readResultsFiles(d).reviewed))]

\* GET /api/models over the directories f: payroll then loan, a directory
\* that does not exist is left out   (Object.keys(null) throws)
GetModels(f) ==
    LET listed == SelectSeq(<<"payroll", "loan">>, LAMBDA m : listModelDirectory(f[m]))
        l(m) == readResultsFiles(f[m])
    IN IF \E i \in 1..Len(listed) :
             l(listed[i]).unreviewed = Null \/ l(listed[i]).reviewed = Null
       THEN Resp(500)
       ELSE [Resp(200) EXCEPT
                !.models = [i \in 1..Len(listed) |-> ModelEntry(listed[i], f[listed[i]])]]

\* ------------------------------------------------------------- paths
\* A path is the sequence of its segments below the project root; a relative
\* path may hold ".." segments.
DataRoot == <<"data">>
ServerFile == <<"backend", "server.js">>

\* path.join(base, rel): the segments of rel are applied to base one by one,
\* ".." dropping the last segment (the data root lies below the project
\* root, so the paths in play never climb above it)
RECURSIVE Join(_, _)
Join(base, rel) ==
    IF rel = <<>> THEN base
    ELSE IF Head(rel) = ".."
    THEN Join(IF base = <<>> THEN base ELSE SubSeq(base, 1, Len(base) - 1), Tail(rel))
    ELSE Join(Append(base, Head(rel)), Tail(rel))

\* The bytes of the regular file at path p in the directories f, "" if there
\* is none: a document of a model directory, or the server's own source
FileAt(f, p) ==
    IF p = ServerFile THEN "source"
    ELSE IF /\ Len(p) = 3 /\ p[1] = "data" /\ p[2] \in DOMAIN f
            /\ f[p[2]].dir /\ p[3] \in DOMAIN f[p[2]].docs
    THEN f[p[2]].docs[p[3]]
    ELSE ""

\* Whether path p is a directory in the directories f
IsDirectory(f, p) ==
    \/ p \in {<<>>, DataRoot, <<"backend">>}
    \/ Len(p) = 2 /\ p[1] = "data" /\ p[2] \in DOMAIN f /\ f[p[2]].dir

\* No response: fs.createReadStream(filePath).pipe(res) on a directory.  The
\* path exists, so the handler starts the stream; the read fails with
\* EISDIR, the stream emits 'error', and nothing listens for it: the event
\* is thrown as an uncaught exception and the process ends before anything
\* is written to the response.
Unanswered(filePath) == [Resp(0) EXCEPT !.sent = filePath]

\* GET /api/:model/pdf/*  with relativePath rel
ServePdf(f, m, rel) ==
    LET filePath == Join(Append(DataRoot, m), rel)
    IN IF ~listModelDirectory(f[m]) THEN Resp(404)
       ELSE IF IsDirectory(f, filePath) THEN Unanswered(filePath)
       ELSE IF FileAt(f, filePath) = "" THEN Resp(404)
       ELSE [Resp(200) EXCEPT !.sent = filePath, !.bytes = FileAt(f, filePath)]

\* ------------------------------------------------------------- upload
\* A file name is the sequence of its pieces: runs of characters the
\* pattern [a-zA-Z0-9._-] admits, and single characters it does not.
Admitted ==
    {"a.pdf", "x", "y.pdf", "_", "loan_result.json", ".", "..", "uploaded.pdf"}

\* originalName.replace(/[^a-zA-Z0-9._-]/g, '_')
RECURSIVE Sanitize(_)
Sanitize(raw) ==
    IF raw = <<>> THEN ""
    ELSE (IF Head(raw) \in Admitted THEN Head(raw) ELSE "_") \o Sanitize(Tail(raw))

\* req.body.filename || req.file.originalname || 'uploaded.pdf'
OriginalName(raw) == IF raw = <<>> THEN <<"uploaded.pdf">> ELSE raw

\* f.toLowerCase().endsWith('_result.json'), over the entry names in play:
\* the entry listModelDirectory finds as the unreviewed ledger, in whichever
\* model directory it lies
EndsInResultJson(name) == name \in {"loan_result.json"}

\* What a payload is as a ledger file: PDF bytes do not parse, the JSON text
\* of a mapping does
Uploaded == [n \in {"a.pdf"} |-> Obj(1)]
AsLedgerFile(payload) == IF payload = "json" THEN Json(Uploaded) ELSE Corrupt

\* A check that finds no entry under any name
TargetNeverExists(d, name) == FALSE

\* A check that looks the name up among the directory's entries only
TargetAmongEntries(d, name) ==
    \/ name \in DOMAIN d.docs
    \/ EndsInResultJson(name) /\ d.result.kind # "none"

\* fs.existsSync(targetPath), targetPath = path.join(modelDir, name): the
\* name holds no separator, so the path is an entry of modelDir, except that
\* "." resolves to modelDir itself and ".." to the data root, which exist
TargetExists(d, name) ==
    \/ name \in {".", ".."}
    \/ name \in DOMAIN d.docs
    \/ EndsInResultJson(name) /\ d.result.kind # "none"

\* fs.renameSync(req.file.path, targetPath): the payload becomes an entry of
\* the directory; under a name ending in _result.json it is the file that
\* listModelDirectory finds as the unreviewed ledger
Renamed(d, name, payload) ==
    IF EndsInResultJson(name)
    THEN [d EXCEPT !.result = AsLedgerFile(payload)]
    ELSE [d EXCEPT !.docs = [n \in DOMAIN d.docs \cup {name} |->
                                IF n = name THEN payload ELSE d.docs[n]]]

UploadOutcomes == {"ok", "mkdirFails", "renameFails"}

\* An unlinkSync that the handler left out
UnlinkSkipped == TRUE

\* fs.unlinkSync(req.file.path): whether the temporary file still exists
Unlinked == FALSE

\* POST /api/upload-pdf with multipart fields model and filename (raw) and
\* file part pdf (hasFile, payload), under I/O outcome io.  Yields the
\* directories, the response and whether the temporary file still exists.
UploadPdf(f, hasFile, model, raw, payload, io) ==
    LET sanitizedFilename == Sanitize(OriginalName(raw))
        modelDir == IF f[model].dir THEN f[model] ELSE [NoDir EXCEPT !.dir = TRUE]
        made == [f EXCEPT ![model] = modelDir]
    IN IF ~hasFile THEN [f |-> f, resp |-> Resp(400), tmp |-> FALSE]
       ELSE IF model \notin {"loan", "payroll"}
       THEN [f |-> f, resp |-> Resp(400), tmp |-> Unlinked]
       ELSE IF ~f[model].dir /\ io = "mkdirFails"
       THEN [f |-> f, resp |-> Resp(500), tmp |-> Unlinked]
       ELSE IF TargetExists(modelDir, sanitizedFilename)
       THEN [f |-> made, resp |-> Resp(409), tmp |-> Unlinked]
       ELSE IF io = "renameFails"
       THEN [f |-> made, resp |-> Resp(500), tmp |-> Unlinked]
       ELSE [f |-> [f EXCEPT ![model] =
                       Renamed(modelDir, sanitizedFilename, payload)],
             resp |-> [Resp(200) EXCEPT !.filename = sanitizedFilename],
             tmp |-> FALSE]

\* ------------------------------------------------------------- the page
\* ModelView's state: selectedFile, edited (null until a result is loaded)
\* and fileStatus; shown is the file whose getResult response filled the
\* editor last.  No page is open outside the specification of the page.
NoUi ==
    [selectedFile |-> NoName, edited |-> Null, fileStatus |-> "none",
     shown |-> NoName]

\* ------------------------------------------------------------- requests
NoRequest ==
    [op |-> "none", model |-> "loan", file |-> NoName, data |-> Undefined,
     io |-> "ok", resp |-> Resp(0), pre |-> NoDir,
     roundTrip |-> FALSE, origin |-> NoDir, addressed |-> <<>>,
     rel |-> <<>>, hasFile |-> FALSE, raw |-> <<>>, payload |-> "", tmp |-> FALSE]

\* This request is the Demote(file) that directly follows a successful
\* Promote(file) of a name that was a key of unreviewed
ClosesRoundTrip(op, m, file) ==
    /\ op = "demote"
    /\ last.op = "promote" /\ last.model = m /\ last.file = file
    /\ last.io = "ok" /\ last.resp.code = 200
    /\ file \in Keys(readResultsFiles(last.pre).unreviewed)

\* The record of a served request: the request, the response, the directory
\* before it and, when it closes a round trip, the directory before the Promote
Served(op, m, file, data, io, resp) ==
    [op |-> op, model |-> m, file |-> file, data |-> data, io |-> io,
     resp |-> resp, pre |-> fs[m],
     roundTrip |-> ClosesRoundTrip(op, m, file),
     origin |-> IF ClosesRoundTrip(op, m, file) THEN last.pre ELSE NoDir,
     addressed |-> <<m>>,
     rel |-> <<>>, hasFile |-> FALSE, raw |-> <<>>, payload |-> "", tmp |-> FALSE]

\* A write can only throw where the handler gets to write that file: the
\* handler would otherwise have responded ok, and the file exists.
CanFail(d, io, whenOk) ==
    \/ io = "ok"
    \/ /\ whenOk.resp.code = 200
       /\ io = "failU" => d.result.kind # "none"
       /\ io = "failR" => d.reviewed.kind # "none"

Save(m, file, data, io) ==
    LET h == PostResult(fs[m], file, data, io)
    IN /\ CanFail(fs[m], io, PostResult(fs[m], file, data, "ok"))
       /\ fs' = [fs EXCEPT ![m] = h.d]
       /\ last' = Served("save", m, file, data, io, h.resp)
       /\ UNCHANGED <<reqs, start, ui>>

Promote(m, file, io) ==
    LET h == MarkReviewed(fs[m], file, io)
    IN /\ CanFail(fs[m], io, MarkReviewed(fs[m], file, "ok"))
       /\ fs' = [fs EXCEPT ![m] = h.d]
       /\ last' = Served("promote", m, file, Undefined, io, h.resp)
       /\ UNCHANGED <<reqs, start, ui>>

Demote(m, file, io) ==
    LET h == MarkUnreviewed(fs[m], file, io)
    IN /\ CanFail(fs[m], io, MarkUnreviewed(fs[m], file, "ok"))
       /\ fs' = [fs EXCEPT ![m] = h.d]
       /\ last' = Served("demote", m, file, Undefined, io, h.resp)
       /\ UNCHANGED <<reqs, start, ui>>

GetRecord(m, file) ==
    /\ last' = Served("getRecord", m, file, Undefined, "ok", GetResult(fs[m], file))
    /\ UNCHANGED <<fs, reqs, start, ui>>

ListCategoryView(m) ==
    /\ last' = Served("list", m, NoName, Undefined, "ok", GetFiles(fs[m]))
    /\ UNCHANGED <<fs, reqs, start, ui>>

\* An export that writes back what it loaded, creating the missing files
ExportAllRepairing(m) ==
    /\ last' = Served("export", m, NoName, Undefined, "ok", DownloadData(fs[m]))
    /\ fs' = [fs EXCEPT ![m] =
                 IF fs[m].dir
                 THEN [fs[m] EXCEPT
                          !.result = Text(readResultsFiles(fs[m]).unreviewed),
                          !.reviewed = Text(readResultsFiles(fs[m]).reviewed)]
                 ELSE fs[m]]
    /\ UNCHANGED <<reqs, start, ui>>

\* exportAll: GET /api/:model/download-data
ExportAll(m) ==
    /\ last' = Served("export", m, NoName, Undefined, "ok", DownloadData(fs[m]))
    /\ UNCHANGED <<fs, reqs, start, ui>>

\* list-categories: GET /api/models
ListCategories ==
    /\ last' = [NoRequest EXCEPT !.op = "models", !.model = NoName,
                                 !.resp = GetModels(fs)]
    /\ UNCHANGED <<fs, reqs, start, ui>>

\* fetch-document-bytes: GET /api/:model/pdf/<rel>
FetchDocument(m, rel) ==
    /\ last' = [Served("fetch", m, NoName, Undefined, "ok", ServePdf(fs, m, rel))
                   EXCEPT !.rel = rel]
    /\ UNCHANGED <<fs, reqs, start, ui>>

\* An I/O failure can only happen at a call the handler gets to make
UploadCanFail(f, hasFile, model, raw, payload, io) ==
    \/ io = "ok"
    \/ /\ io = "mkdirFails"
       /\ hasFile /\ model \in {"loan", "payroll"} /\ ~f[model].dir
    \/ /\ io = "renameFails"
       /\ UploadPdf(f, hasFile, model, raw, payload, "ok").resp.code = 200

\* Ingest: POST /api/upload-pdf
Ingest(hasFile, model, raw, payload, io) ==
    LET h == UploadPdf(fs, hasFile, model, raw, payload, io)
    IN /\ UploadCanFail(fs, hasFile, model, raw, payload, io)
       /\ fs' = h.f
       /\ last' = [NoRequest EXCEPT
                      !.op = "ingest", !.model = model, !.io = io,
                      !.addressed = <<model>>,
                      !.file = Sanitize(OriginalName(raw)),
                      !.resp = h.resp,
                      !.pre = IF model \in DOMAIN fs THEN fs[model] ELSE NoDir,
                      !.hasFile = hasFile, !.raw = raw, !.payload = payload,
                      !.tmp = h.tmp]
       /\ UNCHANGED <<reqs, start, ui>>

\* ------------------------------------------------------------- initial state
\* A directory as deployed: absent, or present with each ledger file absent,
\* unparsable or an empty mapping, and any set of documents.
LedgerFiles == {NoFile, Corrupt, Json(EmptyObject)}
InitDirs ==
    {NoDir} \cup
    {[dir |-> TRUE, result |-> u, reviewed |-> r, docs |-> Shipped(p)] :
        u \in LedgerFiles, r \in LedgerFiles, p \in SUBSET DocNames}

\* The loan directory is deployed in any of these ways; the payroll directory
\* has not been created yet.
Init ==
    /\ fs \in {f \in [Models -> InitDirs] : f["payroll"] = NoDir}
    /\ last = NoRequest
    /\ reqs = <<>>
    /\ start = NoDir
    /\ ui = NoUi

Next ==
    \/ \E m \in Models, file \in FileArgs, data \in DataArgs, io \in IoOutcomes :
          Save(m, file, data, io)
    \/ \E m \in Models, file \in FileArgs, io \in IoOutcomes : Promote(m, file, io)
    \/ \E m \in Models, file \in FileArgs, io \in IoOutcomes : Demote(m, file, io)
    \/ \E m \in Models, file \in FileArgs : GetRecord(m, file)
    \/ \E m \in Models : ListCategoryView(m)

Spec == Init /\ [][Next]_vars

\* ------------------------------------------------------------- as deployed
\* The service as the README lays it out: the loan directory holds both
\* ledger files, storage does not fail, and clients name documents (or send
\* no name).
DeployedDirs ==
    {[dir |-> TRUE, result |-> Json(EmptyObject), reviewed |-> Json(EmptyObject),
      docs |-> Shipped(p)] : p \in SUBSET DocNames}

InitDeployed ==
    /\ fs \in {f \in [Models -> InitDirs] :
                  f["loan"] \in DeployedDirs /\ f["payroll"] = NoDir}
    /\ last = NoRequest
    /\ reqs = <<>>
    /\ start = NoDir
    /\ ui = NoUi

NextDeployed ==
    \/ \E file \in DocNames \cup {NoName}, data \in DataArgs :
          Save("loan", file, data, "ok")
    \/ \E file \in DocNames \cup {NoName} : Promote("loan", file, "ok")
    \/ \E file \in DocNames \cup {NoName} : Demote("loan", file, "ok")
    \/ \E file \in DocNames \cup {NoName} : GetRecord("loan", file)
    \/ ListCategoryView("loan")

SpecDeployed == InitDeployed /\ [][NextDeployed]_vars

\* ------------------------------------------------------------- the store
\* Documents uploaded and fetched, and the read operations.  Besides the two
\* configured models the data root may hold a directory that is not one of
\* them; requests may name it.
Unconfigured == "archive"
Categories == Models \cup {Unconfigured}

\* A ledger file with a record in it
Stored == [n \in {"a.pdf"} |-> Obj(1)]

StoreDirs ==
    {[dir |-> TRUE, result |-> u, reviewed |-> r, docs |-> Shipped(p)] :
        u \in {NoFile, Json(Stored)}, r \in {NoFile, Json(EmptyObject)},
        p \in SUBSET DocNames}

\* The loan directory is deployed with or without its ledger files, the
\* payroll directory has not been created yet, and the other directory, if
\* there is one, holds both ledger files and every document.
InitStore ==
    /\ fs \in {f \in [Categories -> StoreDirs \cup {NoDir}] :
                  /\ f["loan"] \in StoreDirs
                  /\ f["payroll"] = NoDir
                  /\ f[Unconfigured].dir =>
                        /\ f[Unconfigured].result = Json(Stored)
                        /\ f[Unconfigured].reviewed = Json(EmptyObject)
                        /\ f[Unconfigured].docs = Shipped(DocNames)}
    /\ last = NoRequest
    /\ reqs = <<>>
    /\ start = NoDir
    /\ ui = NoUi

\* Relative paths a client asks for: a document, a path through a
\* subdirectory and back, a document of another model, the server's source
RelPaths ==
    {<<"a.pdf">>, <<"sub", "..", "a.pdf">>, <<"..", "payroll", "a.pdf">>,
     <<"..", "..", "backend", "server.js">>}

\* Uploads: the name the client gives (a name, a name with a space in it,
\* the same with an underscore, the name of a ledger file) and what the
\* payload holds
Uploads ==
    {[raw |-> <<"a.pdf">>, payload |-> "pdf"],
     [raw |-> <<"x", " ", "y.pdf">>, payload |-> "pdf"],
     [raw |-> <<"x", "_", "y.pdf">>, payload |-> "pdf"],
     [raw |-> <<"loan_result.json">>, payload |-> "json"]}

\* A request without a file part, or without a configured model, is turned
\* away whatever its other fields are: one upload stands for all of them.
NextStore ==
    \/ \E m \in Categories, file \in DocNames : GetRecord(m, file)
    \/ \E m \in Categories : ListCategoryView(m)
    \/ \E m \in Categories : ExportAll(m)
    \/ ListCategories
    \/ \E m \in Categories, rel \in RelPaths : FetchDocument(m, rel)
    \/ \E model \in Models, u \in Uploads, io \in UploadOutcomes :
          Ingest(TRUE, model, u.raw, u.payload, io)
    \/ \E model \in {Unconfigured, NoName} : Ingest(TRUE, model, <<"a.pdf">>, "pdf", "ok")
    \/ Ingest(FALSE, "loan", <<>>, "", "ok")

SpecStore == InitStore /\ [][NextStore]_vars

\* ------------------------------------------------------------- upload names
\* Uploads under names that point at or out of the model directory, into
\* both configured models, with the views that list what was stored.
IngestDirs ==
    {[dir |-> TRUE, result |-> Json(Stored), reviewed |-> Json(EmptyObject),
      docs |-> Shipped(p)] : p \in SUBSET DocNames}

InitIngest ==
    /\ fs \in {f \in [Categories -> IngestDirs \cup {NoDir}] :
                  /\ f["loan"] \in IngestDirs
                  /\ f[Unconfigured] \in IngestDirs
                  /\ f[Unconfigured].docs = Shipped(DocNames)}
    /\ last = NoRequest
    /\ reqs = <<>>
    /\ start = NoDir
    /\ ui = NoUi

\* The name the client gives: none, a document's name, the directory itself,
\* its parent, a path out of the directory
RawNames == {<<>>, <<"a.pdf">>, <<".">>, <<"..">>, <<"..", "/", "x">>}

NextIngest ==
    \/ \E model \in Models, raw \in RawNames, io \in UploadOutcomes :
          Ingest(TRUE, model, raw, "pdf", io)
    \/ \E m \in Models : ListCategoryView(m)
    \/ ListCategories

SpecIngest == InitIngest /\ [][NextIngest]_vars

\* ------------------------------------------------------------- two uploads
\* Two clients upload one file each.  multer stores each body in a temporary
\* file of its own and then calls the handler; the handlers run one after
\* the other in either order.
UploadRequests ==
    {[model |-> m, raw |-> raw] :
        m \in Models, raw \in {<<"a.pdf">>, <<"x", " ", "y.pdf">>, <<"x", "_", "y.pdf">>}}

SentUpload(u, payload) ==
    [op |-> "ingest", model |-> u.model, raw |-> u.raw, payload |-> payload,
     io |-> "ok", pc |-> "sent", resp |-> Resp(0), snap |-> fs, tmp |-> FALSE]

InitUploadConc ==
    /\ fs \in {f \in [Models -> IngestDirs \cup {NoDir}] : f["loan"] \in IngestDirs}
    /\ last = NoRequest
    /\ start = NoDir
    /\ ui = NoUi
    /\ \E u1 \in UploadRequests, u2 \in UploadRequests :
          reqs = <<SentUpload(u1, "first"), SentUpload(u2, "second")>>

\* upload.single('pdf') has stored the body of request i in its temporary
\* file; the handler is next in line
Received(i) ==
    /\ reqs[i].pc = "sent"
    /\ reqs' = [reqs EXCEPT ![i].pc = "queued", ![i].snap = fs, ![i].tmp = TRUE]
    /\ UNCHANGED <<fs, last, start, ui>>

\* A handler that looks at the directories as they were when its request
\* was received
UploadFsStale(r) == r.snap

\* The directories the upload handler works on: those it finds when it runs
UploadFs(r) == fs

\* The upload handler of request i runs to completion and responds
HandleUpload(i) ==
    /\ reqs[i].pc = "queued"
    /\ \E io \in UploadOutcomes :
          LET r == reqs[i]
              h == UploadPdf(UploadFs(r), TRUE, r.model, r.raw, r.payload, io)
          IN /\ UploadCanFail(UploadFs(r), TRUE, r.model, r.raw, r.payload, io)
             /\ fs' = h.f
             /\ reqs' = [reqs EXCEPT ![i].pc = "done", ![i].resp = h.resp,
                                      ![i].io = io, ![i].tmp = h.tmp]
    /\ UNCHANGED <<last, start, ui>>

NextUploadConc ==
    \/ \E i \in 1..2 : Received(i)
    \/ \E i \in 1..2 : HandleUpload(i)

SpecUploadConc == InitUploadConc /\ [][NextUploadConc]_vars

\* ------------------------------------------------------------- other names
\* Requests that name a category outside the configured set: every route
\* takes the category from the URL (upload-pdf from the form) as it comes.
\* The directory of that name does not exist, or exists with or without
\* ledger files.
UnconfiguredDirs ==
    {NoDir} \cup
    {[dir |-> TRUE, result |-> u, reviewed |-> r, docs |-> Shipped(p)] :
        u \in {NoFile, Json(EmptyObject)}, r \in {NoFile, Json(EmptyObject)},
        p \in SUBSET DocNames}

InitUnconfigured ==
    /\ fs \in {f \in [Categories -> UnconfiguredDirs] :
                  /\ f["loan"] \in DeployedDirs /\ f["loan"].docs = Shipped(DocNames)
                  /\ f["payroll"] = NoDir}
    /\ last = NoRequest
    /\ reqs = <<>>
    /\ start = NoDir
    /\ ui = NoUi

NextUnconfigured ==
    \/ \E file \in DocNames, data \in RecordObjects \cup {Null} :
          Save(Unconfigured, file, data, "ok")
    \/ \E file \in DocNames : Promote(Unconfigured, file, "ok")
    \/ \E file \in DocNames : Demote(Unconfigured, file, "ok")
    \/ \E file \in DocNames : GetRecord(Unconfigured, file)
    \/ ListCategoryView(Unconfigured)
    \/ ExportAll(Unconfigured)
    \/ \E rel \in RelPaths : FetchDocument(Unconfigured, rel)
    \/ \E u \in Uploads : Ingest(TRUE, Unconfigured, u.raw, u.payload, "ok")

SpecUnconfigured == InitUnconfigured /\ [][NextUnconfigured]_vars

\* ------------------------------------------------------------- degraded
\* The read operations over a loan directory whose ledger files are each
\* absent, unparsable, the JSON text null, or a mapping with a record.
DegradedFiles == {NoFile, Corrupt, JsonNull, Json(Stored)}
DegradedDirs ==
    {[dir |-> TRUE, result |-> u, reviewed |-> r, docs |-> Shipped(p)] :
        u \in DegradedFiles, r \in DegradedFiles, p \in SUBSET DocNames}

InitDegraded ==
    /\ fs \in {f \in [Models -> DegradedDirs \cup {NoDir}] :
                  f["loan"] \in DegradedDirs /\ f["payroll"] = NoDir}
    /\ last = NoRequest
    /\ reqs = <<>>
    /\ start = NoDir
    /\ ui = NoUi

NextDegraded ==
    \/ \E file \in Names : GetRecord("loan", file)
    \/ ListCategoryView("loan")
    \/ ExportAll("loan")
    \/ ListCategories

SpecDegraded == InitDegraded /\ [][NextDegraded]_vars

\* ------------------------------------------------------------- concurrency
\* Two clients send one mutating request each against the loan model, for
\* different names.  express.json() parses a body asynchronously, so the two
\* requests reach their handlers in either order; a handler itself has no
\* await in it and runs from its read to its response in one turn.
NumConcDocs == 2
ConcDocNames == {AllDocNames[i] : i \in 1..NumConcDocs}
ConcNames == ConcDocNames \cup ProtoNames

MutatingRequests ==
    {[op |-> "save", file |-> f, data |-> x] :
        f \in ConcNames, x \in RecordObjects \cup {Null}}
    \cup {[op |-> o, file |-> f, data |-> Undefined] :
        o \in {"promote", "demote"}, f \in ConcNames}

\* Ledgers the API can have produced: every document has no record, an
\* unreviewed one or a reviewed one; or a ledger file is absent.
Placement == [ConcDocNames -> {"none", "unreviewed", "reviewed"}]
Placed(pl, side) ==
    [n \in {k \in ConcDocNames : pl[k] = side} |-> Obj(1)]
ConcDirs ==
    {[dir |-> TRUE, result |-> Json(Placed(pl, "unreviewed")),
      reviewed |-> Json(Placed(pl, "reviewed")), docs |-> NoDocs] : pl \in Placement}
    \cup {[dir |-> TRUE, result |-> u, reviewed |-> r, docs |-> NoDocs] :
            u \in {NoFile, Json(EmptyObject)}, r \in {NoFile, Json(EmptyObject)}}

Sent(r) ==
    [op |-> r.op, file |-> r.file, data |-> r.data, io |-> "ok", pc |-> "sent",
     resp |-> Resp(0), snap |-> NoDir]

InitConc ==
    /\ start \in ConcDirs
    /\ ui = NoUi
    /\ fs = [m \in Models |-> IF m = "loan" THEN start ELSE NoDir]
    /\ last = NoRequest
    /\ \E r1 \in MutatingRequests, r2 \in MutatingRequests :
          /\ r1.file # r2.file
          /\ reqs = <<Sent(r1), Sent(r2)>>

\* The handler of a request applied to the loan directory d
Handler(r, d) ==
    IF r.op = "save" THEN PostResult(d, r.file, r.data, r.io)
    ELSE IF r.op = "promote" THEN MarkReviewed(d, r.file, r.io)
    ELSE IF r.op = "demote" THEN MarkUnreviewed(d, r.file, r.io)
    ELSE IF r.op = "getRecord" THEN [d |-> d, resp |-> GetResult(d, r.file)]
    ELSE IF r.op = "list" THEN [d |-> d, resp |-> GetFiles(d)]
    ELSE IF r.op = "export" THEN [d |-> d, resp |-> DownloadData(d)]
    ELSE [d |-> d, resp |-> GetModels([fs EXCEPT !["loan"] = d])]

\* A handler that worked on what was on disk when its request arrived
HandlerDirStale(r) == r.snap

\* A handler that finds one ledger file as it is now and the other as it was
\* when its request arrived
HandlerDirTorn(r) == [fs["loan"] EXCEPT !.reviewed = r.snap.reviewed]

\* The directory a handler works on: the one it reads when it runs
HandlerDir(r) == fs["loan"]

\* The body of request i has been parsed; its handler is next in line
Arrive(i) ==
    /\ reqs[i].pc = "sent"
    /\ reqs' = [reqs EXCEPT ![i].pc = "queued", ![i].snap = fs["loan"]]
    /\ UNCHANGED <<fs, last, start, ui>>

\* The handler of request i runs to completion and responds
Handle(i) ==
    /\ reqs[i].pc = "queued"
    /\ LET h == Handler(reqs[i], HandlerDir(reqs[i]))
       IN /\ fs' = [fs EXCEPT !["loan"] = h.d]
          /\ reqs' = [reqs EXCEPT ![i].pc = "done", ![i].resp = h.resp]
    /\ UNCHANGED <<last, start, ui>>

NextConc ==
    \/ \E i \in 1..2 : Arrive(i)
    \/ \E i \in 1..2 : Handle(i)

SpecConc == InitConc /\ [][NextConc]_vars

\* One client sends a mutating request and another a read request against
\* the loan model; they reach their handlers in either order.  The write of
\* a ledger file that exists may throw while the mutating request is handled.
ReadRequests ==
    {[op |-> "getRecord", file |-> f, data |-> Undefined] : f \in ConcNames}
    \cup {[op |-> o, file |-> NoName, data |-> Undefined] :
            o \in {"list", "export", "models"}}

InitReadConc ==
    /\ start \in ConcDirs
    /\ ui = NoUi
    /\ fs = [m \in Models |-> IF m = "loan" THEN start ELSE NoDir]
    /\ last = NoRequest
    /\ \E w \in MutatingRequests, io \in IoOutcomes, r \in ReadRequests :
          /\ CanFail(start, io, Handler(Sent(w), start))
          /\ reqs = <<[Sent(w) EXCEPT !.io = io], Sent(r)>>

NextReadConc ==
    \/ \E i \in 1..2 : Arrive(i)
    \/ \E i \in 1..2 : Handle(i)

SpecReadConc == InitReadConc /\ [][NextReadConc]_vars

\* ------------------------------------------------------------- addressing
\* Every route but upload-pdf takes the model from the URL segment :model,
\* percent-decoded, and joins it to the data root as it comes.  A model
\* identifier is the sequence of the path segments it decodes to:
\* loan%2F..%2Fpayroll is <<"loan", "..", "payroll">>.
ModelIds == {<<"loan">>, <<"payroll">>, <<Unconfigured>>, <<"loan", "..", "payroll">>}

\* path.join(dataRoot, model): the directory the request works on
ModelDirOf(id) == Join(DataRoot, id)[2]

AddressedDirs ==
    {[dir |-> TRUE, result |-> u, reviewed |-> Json(EmptyObject),
      docs |-> Shipped(DocNames)] : u \in {Json(EmptyObject), Json(Stored)}}

InitAddressed ==
    /\ fs \in [Categories -> AddressedDirs]
    /\ last = NoRequest
    /\ reqs = <<>>
    /\ start = NoDir
    /\ ui = NoUi

AddressedRequests ==
    {[op |-> "save", file |-> f, data |-> Obj(2)] : f \in DocNames}
    \cup {[op |-> o, file |-> f, data |-> Undefined] :
            o \in {"promote", "demote", "getRecord"}, f \in DocNames}
    \cup {[op |-> o, file |-> NoName, data |-> Undefined] : o \in {"list", "export"}}

\* A request on a route with :model, addressed by identifier id
RequestAt(id, r) ==
    LET m == ModelDirOf(id)
        h == Handler(Sent(r), fs[m])
    IN /\ fs' = [fs EXCEPT ![m] = h.d]
       /\ last' = [Served(r.op, m, r.file, r.data, "ok", h.resp) EXCEPT
                      !.addressed = id]
       /\ UNCHANGED <<reqs, start, ui>>

NextAddressed ==
    \/ \E id \in ModelIds, r \in AddressedRequests : RequestAt(id, r)
    \/ \E model \in Models, raw \in {<<>>, <<"a.pdf">>} :
          Ingest(TRUE, model, raw, "pdf", "ok")

SpecAddressed == InitAddressed /\ [][NextAddressed]_vars

\* ------------------------------------------------------------- liveness
\* Two clients send one request each against the loan model, whose ledger
\* files hold a mapping or the JSON text null.  A request may ask for the
\* bytes of a document, of a name that is not there, or of the empty name,
\* which resolves to the directory itself.  Once the process has ended no
\* handler runs any more.
LiveDirs ==
    {[dir |-> TRUE, result |-> u, reviewed |-> r, docs |-> Shipped(DocNames)] :
        u \in {Json(Stored), JsonNull}, r \in {Json(EmptyObject), JsonNull}}

LiveRequests ==
    {[op |-> "getRecord", file |-> "a.pdf", data |-> Undefined, rel |-> <<>>],
     [op |-> "list", file |-> NoName, data |-> Undefined, rel |-> <<>>],
     [op |-> "export", file |-> NoName, data |-> Undefined, rel |-> <<>>],
     [op |-> "models", file |-> NoName, data |-> Undefined, rel |-> <<>>],
     [op |-> "save", file |-> "a.pdf", data |-> Obj(1), rel |-> <<>>],
     [op |-> "promote", file |-> "a.pdf", data |-> Undefined, rel |-> <<>>],
     [op |-> "fetch", file |-> NoName, data |-> Undefined, rel |-> <<"a.pdf">>],
     [op |-> "fetch", file |-> NoName, data |-> Undefined, rel |-> <<"z.pdf">>],
     [op |-> "fetch", file |-> NoName, data |-> Undefined, rel |-> <<>>]}

LiveSent(r) ==
    [op |-> r.op, file |-> r.file, data |-> r.data, io |-> "ok", pc |-> "sent",
     resp |-> Resp(0), snap |-> NoDir, rel |-> r.rel]

InitLive ==
    /\ start \in LiveDirs
    /\ ui = NoUi
    /\ fs = [m \in Models |-> IF m = "loan" THEN start ELSE NoDir]
    /\ last = NoRequest
    /\ \E r1 \in LiveRequests, r2 \in LiveRequests : reqs = <<LiveSent(r1), LiveSent(r2)>>

\* The process is running: no request has ended it
Running == \A j \in 1..Len(reqs) : reqs[j].pc # "ended"

\* The handler of request i runs: it responds, or the process ends
Answer(i) ==
    /\ reqs[i].pc = "queued"
    /\ Running
    /\ LET h == IF reqs[i].op = "fetch"
                THEN [d |-> fs["loan"], resp |-> ServePdf(fs, "loan", reqs[i].rel)]
                ELSE Handler(reqs[i], fs["loan"])
       IN /\ fs' = [fs EXCEPT !["loan"] = h.d]
          /\ reqs' = [reqs EXCEPT ![i].resp = h.resp,
                                  ![i].pc = IF h.resp.code = 0 THEN "ended" ELSE "done"]
    /\ UNCHANGED <<last, start, ui>>

NextLive ==
    \/ \E i \in 1..2 : Arrive(i)
    \/ \E i \in 1..2 : Answer(i)

\* The event loop takes up every request that has arrived and, while the
\* process runs, runs the handler of every request in line.
SpecLive ==
    /\ InitLive /\ [][NextLive]_vars
    /\ \A i \in 1..2 : WF_vars(Arrive(i)) /\ WF_vars(Answer(i))

\* ------------------------------------------------------------- review page
\* One reviewer works on the loan model in the browser.  The directory holds
\* both ledger files and two documents, each with its own record in one of
\* the collections or with none.
MaxSelections == 2
UiDocNames == {"a.pdf", "b.pdf"}
RecordOf(n) == IF n = "a.pdf" THEN Obj(1) ELSE Obj(2)

\* {} : what the page shows when getResult fails
EmptyRecord == Obj(-1)
\* The record after the reviewer changed a field
Edited == Obj(3)

UiPlacement == [UiDocNames -> {"none", "unreviewed", "reviewed"}]
UiPlaced(pl, side) == [n \in {k \in UiDocNames : pl[k] = side} |-> RecordOf(n)]
UiDirs ==
    {[dir |-> TRUE, result |-> Json(UiPlaced(pl, "unreviewed")),
      reviewed |-> Json(UiPlaced(pl, "reviewed")), docs |-> Shipped(UiDocNames)] :
        pl \in UiPlacement}

InitUi ==
    /\ fs \in {f \in [Models -> UiDirs \cup {NoDir}] :
                  f["loan"] \in UiDirs /\ f["payroll"] = NoDir}
    /\ last = NoRequest
    /\ reqs = <<>>
    /\ start = NoDir
    /\ ui = NoUi

\* The reviewer clicks a file in the sidebar: setSelectedFile, and the effect
\* on [model, selectedFile] clears result and edited and calls getResult.
\* fileStatus keeps its value until a response arrives.
SelectFile(f) ==
    /\ f # ui.selectedFile
    /\ Len(reqs) < MaxSelections
    /\ ui' = [ui EXCEPT !.selectedFile = f, !.edited = Null, !.shown = NoName]
    /\ reqs' = Append(reqs, Sent([op |-> "getRecord", file |-> f, data |-> Undefined]))
    /\ UNCHANGED <<fs, last, start>>

\* The response to getResult request i reaches the page: .then on ok,
\* .catch otherwise.  Neither looks at which file is selected now.
Deliver(i) ==
    /\ reqs[i].pc = "done"
    /\ reqs' = [reqs EXCEPT ![i].pc = "applied"]
    /\ ui' = IF reqs[i].resp.code = 200
             THEN [ui EXCEPT !.edited = reqs[i].resp.data,
                             !.fileStatus = reqs[i].resp.status,
                             !.shown = reqs[i].file]
             ELSE [ui EXCEPT !.edited = EmptyRecord, !.fileStatus = "none",
                             !.shown = reqs[i].file]
    /\ UNCHANGED <<fs, last, start>>

\* onChangeField
OnChangeField ==
    /\ ui.selectedFile # NoName /\ ui.edited \notin {Null, Edited}
    /\ ui' = [ui EXCEPT !.edited = Edited]
    /\ UNCHANGED <<fs, last, reqs, start>>

\* onSave: the Save button is enabled once edited is set; the page posts
\* { file: selectedFile, data: edited } and leaves fileStatus as it is
OnSave ==
    LET h == PostResult(fs["loan"], ui.selectedFile, ui.edited, "ok")
    IN /\ ui.selectedFile # NoName /\ ui.edited # Null
       /\ fs' = [fs EXCEPT !["loan"] = h.d]
       /\ last' = Served("save", "loan", ui.selectedFile, ui.edited, "ok", h.resp)
       /\ UNCHANGED <<reqs, start, ui>>

\* onMarkReviewed: the button is shown while fileStatus is unreviewed; on an
\* ok response the page sets fileStatus to reviewed
OnMarkReviewed ==
    LET h == MarkReviewed(fs["loan"], ui.selectedFile, "ok")
    IN /\ ui.selectedFile # NoName /\ ui.fileStatus = "unreviewed"
       /\ fs' = [fs EXCEPT !["loan"] = h.d]
       /\ last' = Served("promote", "loan", ui.selectedFile, Undefined, "ok", h.resp)
       /\ ui' = IF h.resp.code = 200 THEN [ui EXCEPT !.fileStatus = "reviewed"] ELSE ui
       /\ UNCHANGED <<reqs, start>>

\* onMarkUnreviewed: shown while fileStatus is reviewed
OnMarkUnreviewed ==
    LET h == MarkUnreviewed(fs["loan"], ui.selectedFile, "ok")
    IN /\ ui.selectedFile # NoName /\ ui.fileStatus = "reviewed"
       /\ fs' = [fs EXCEPT !["loan"] = h.d]
       /\ last' = Served("demote", "loan", ui.selectedFile, Undefined, "ok", h.resp)
       /\ ui' = IF h.resp.code = 200 THEN [ui EXCEPT !.fileStatus = "unreviewed"] ELSE ui
       /\ UNCHANGED <<reqs, start>>

NextUi ==
    \/ \E f \in UiDocNames : SelectFile(f)
    \/ \E i \in 1..Len(reqs) : Arrive(i)
    \/ \E i \in 1..Len(reqs) : Handle(i)
    \/ \E i \in 1..Len(reqs) : Deliver(i)
    \/ OnChangeField
    \/ OnSave
    \/ OnMarkReviewed
    \/ OnMarkUnreviewed

SpecUi == InitUi /\ [][NextUi]_vars

\* ------------------------------------------------------------- properties
\* The ledger as load returns it
Ledger(m) == readResultsFiles(fs[m])
PreLedger == readResultsFiles(last.pre)
PostLedger == Ledger(last.model)

Mutating == {"save", "promote", "demote"}
RespondedOk == last.resp.code = 200

HoldsIn(o, name, value) == name \in Keys(o) /\ o[name] = value

\* C1: after any sequence of Save, Promote and Demote requests from a ledger
\* with disjoint key sets, no name is a key of both unreviewed and reviewed.
C1_AtMostOneCollection ==
    \A m \in Models : Keys(Ledger(m).unreviewed) \cap Keys(Ledger(m).reviewed) = {}

BothRespondedOk ==
    /\ reqs # <<>>
    /\ \A i \in 1..2 : reqs[i].pc = "done" /\ reqs[i].resp.code = 200

RunInOrder(i, j) ==
    LET first == Handler(reqs[i], start)
        second == Handler(reqs[j], first.d)
    IN /\ first.resp = reqs[i].resp
       /\ second.resp = reqs[j].resp
       /\ second.d = fs["loan"]

\* C2: two concurrent mutating requests for different names lose no update:
\* once both have responded ok, the persisted ledger and both responses are
\* those of running the two requests one after the other, whatever the
\* order in which the requests arrived and were handled.
C2_NoLostUpdate ==
    BothRespondedOk => (RunInOrder(1, 2) \/ RunInOrder(2, 1))

\* Both requests arrived before either handler ran, both responded ok, and
\* the two documents they saved are both in the persisted ledger.
C2_Witness ==
    /\ BothRespondedOk
    /\ \A i \in 1..2 :
          /\ reqs[i].op = "save" /\ reqs[i].file \in ConcDocNames
          /\ reqs[i].snap = start
          /\ reqs[i].file \notin Keys(readResultsFiles(start).unreviewed)
          /\ HoldsIn(Ledger("loan").unreviewed, reqs[i].file, reqs[i].data)

\* C3: a Save(name, record) that responds ok for a name that is a key of
\* neither collection leaves name in unreviewed mapped to record and not in
\* reviewed, and a following getRecord(name) returns (record, unreviewed).
C3_SaveNewGoesToUnreviewed ==
    (/\ last.op = "save" /\ RespondedOk
     /\ last.file \notin Keys(PreLedger.unreviewed) \cup Keys(PreLedger.reviewed))
    => /\ HoldsIn(PostLedger.unreviewed, last.file, last.data)
       /\ last.file \notin Keys(PostLedger.reviewed)
       /\ GetResult(fs[last.model], last.file) =
             [Resp(200) EXCEPT !.data = last.data, !.status = "unreviewed"]

\* C4: a successful Save(name, newRecord) on a name that is a key of
\* reviewed (resp. unreviewed), whatever its current value, leaves it a key
\* of reviewed (resp. unreviewed) with value newRecord and not a key of the
\* other collection.
C4_SavePreservesStatus ==
    (last.op = "save" /\ RespondedOk)
    => /\ (/\ last.file \in Keys(PreLedger.reviewed)
           /\ last.file \notin Keys(PreLedger.unreviewed))
          => /\ HoldsIn(PostLedger.reviewed, last.file, last.data)
             /\ last.file \notin Keys(PostLedger.unreviewed)
       /\ (/\ last.file \in Keys(PreLedger.unreviewed)
           /\ last.file \notin Keys(PreLedger.reviewed))
          => /\ HoldsIn(PostLedger.unreviewed, last.file, last.data)
             /\ last.file \notin Keys(PostLedger.reviewed)

\* C5: a Promote(name) that responds ok for a key of unreviewed leaves name
\* out of unreviewed and in reviewed with the value it had in unreviewed;
\* symmetrically for a Demote(name) that responds ok for a key of reviewed.
C5_MovePreservesRecord ==
    /\ (/\ last.op = "promote" /\ RespondedOk
        /\ last.file \in Keys(PreLedger.unreviewed))
       => /\ last.file \notin Keys(PostLedger.unreviewed)
          /\ HoldsIn(PostLedger.reviewed, last.file, PreLedger.unreviewed[last.file])
    /\ (/\ last.op = "demote" /\ RespondedOk
        /\ last.file \in Keys(PreLedger.reviewed))
       => /\ last.file \notin Keys(PostLedger.reviewed)
          /\ HoldsIn(PostLedger.unreviewed, last.file, PreLedger.reviewed[last.file])

\* C6: round trip: for every ledger in which x is a key of unreviewed,
\* Promote(x) succeeds, the Demote(x) that follows it succeeds, and both
\* collections are then what they were before the Promote.
C6_RoundTrip ==
    /\ (/\ last.op = "promote" /\ last.io = "ok"
        /\ last.file \in Keys(PreLedger.unreviewed))
       => RespondedOk
    /\ (last.roundTrip /\ last.io = "ok")
       => /\ RespondedOk
          /\ PostLedger = readResultsFiles(last.origin)

\* C7: Promote(name) fails with NotFound exactly when name is not a key of
\* unreviewed, Demote(name) exactly when name is not a key of reviewed, and
\* a NotFound leaves both persisted collections unchanged.
C7_NotFoundIffNotAKey ==
    /\ (last.op = "promote" /\ last.file # NoName)
       => /\ last.resp.code = 404 <=> last.file \notin Keys(PreLedger.unreviewed)
          /\ last.resp.code = 404 => fs[last.model] = last.pre
    /\ (last.op = "demote" /\ last.file # NoName)
       => /\ last.resp.code = 404 <=> last.file \notin Keys(PreLedger.reviewed)
          /\ last.resp.code = 404 => fs[last.model] = last.pre

InLists(v, n) ==
    (IF n \in v.unreviewed THEN 1 ELSE 0) + (IF n \in v.reviewed THEN 1 ELSE 0)
    + (IF n \in v.noResult THEN 1 ELSE 0)

\* C8: listCategoryView puts every document of the Document Store in exactly
\* one of unreviewed, reviewed, noResult; every ledger key without a document
\* is in the list of its collection and not in noResult; no name is in two
\* lists.
C8_ViewPartitions ==
    (last.op = "list" /\ RespondedOk)
    => LET v == last.resp
           d == fs[last.model]
       IN /\ \A n \in Pdfs(d) : InLists(v, n) = 1
          /\ \A n \in Keys(PostLedger.unreviewed) \ Pdfs(d) :
                n \in v.unreviewed /\ n \notin v.noResult
          /\ \A n \in Keys(PostLedger.reviewed) \ Pdfs(d) :
                n \in v.reviewed /\ n \notin v.noResult
          /\ \A n \in Names : InLists(v, n) <= 1

\* C9: getRecord fails with NotFound exactly when name is a key of neither
\* collection; otherwise it returns the stored record with status unreviewed
\* if name is a key of unreviewed, else reviewed, whatever the stored value.
C9_GetRecordByMembership ==
    (last.op = "getRecord" /\ last.file # NoName)
    => IF last.file \in Keys(PostLedger.unreviewed)
       THEN last.resp = [Resp(200) EXCEPT
                            !.data = PostLedger.unreviewed[last.file],
                            !.status = "unreviewed"]
       ELSE IF last.file \in Keys(PostLedger.reviewed)
       THEN last.resp = [Resp(200) EXCEPT
                            !.data = PostLedger.reviewed[last.file],
                            !.status = "reviewed"]
       ELSE last.resp.code = 404

MutatedLedger ==
    IF last.op = "save" THEN SaveMutation(PreLedger, last.file, last.data)
    ELSE IF last.op = "promote" THEN PromoteMutation(PreLedger, last.file)
    ELSE DemoteMutation(PreLedger, last.file)

ReachedTheWrite == last.op \in Mutating /\ last.resp.code \in {200, 500}

CouldNotWrite ==
    \/ ~last.pre.dir
    \/ last.pre.result.kind = "none" \/ last.pre.reviewed.kind = "none"
    \/ last.io # "ok"

\* C10: no silent success: when Save, Promote or Demote responds ok, a load
\* right after returns exactly the collections as the operation mutated
\* them; and when a collection could not be written (the write failed or
\* there is no file to write to), the operation responds with an error.
C10_NoSilentSuccess ==
    /\ (last.op \in Mutating /\ RespondedOk) => PostLedger = MutatedLedger
    /\ (ReachedTheWrite /\ CouldNotWrite) => last.resp.code = 500

\* The names that are a key of unreviewed or of reviewed in directory d
RecordNames(d) ==
    LET l == readResultsFiles(d)
    IN (IF l.unreviewed = Null THEN {} ELSE Keys(l.unreviewed))
       \cup (IF l.reviewed = Null THEN {} ELSE Keys(l.reviewed))

\* C11: no record is ever deleted: in every step of every sequence of
\* operations, each name that is a key of unreviewed or of reviewed of a
\* category before the step is still a key of one of them after it.
C11_NoRecordDeleted ==
    [][\A m \in Models : RecordNames(fs[m]) \subseteq RecordNames(fs'[m])]_vars

ReadOps == {"getRecord", "list", "export", "models"}

\* The read request of the pair has been answered
ReadAnswered == reqs # <<>> /\ reqs[2].op \in ReadOps /\ reqs[2].pc = "done"

\* C12: a read request (listCategoryView, getRecord, exportAll or
\* list-categories) in flight together with a mutating request on the same
\* category is answered from the ledger as it was before the mutation or as
\* it is after it, in every order of arrival and handling.
C12_ReadBeforeOrAfter ==
    ReadAnswered
    => \/ reqs[2].resp = Handler(reqs[2], start).resp
       \/ reqs[2].resp = Handler(reqs[2], Handler(reqs[1], start).d).resp

\* A listCategoryView that arrived before a Promote was handled and was
\* answered after it: the promoted name is listed as reviewed, which the
\* ledger before the Promote did not show.
C12_Witness ==
    /\ ReadAnswered /\ reqs[2].op = "list" /\ reqs[2].snap = start
    /\ reqs[1].op = "promote" /\ reqs[1].pc = "done" /\ reqs[1].resp.code = 200
    /\ reqs[1].file \in reqs[2].resp.reviewed
    /\ reqs[1].file \notin reqs[2].resp.unreviewed
    /\ reqs[1].file \in Handler(reqs[2], start).resp.unreviewed

ServedReads == {"getRecord", "list", "export", "models", "fetch"}

\* C13: the read operations are read-only: a step that serves exportAll,
\* list-categories, listCategoryView, getRecord or fetch-document-bytes
\* leaves the ledger files and the documents of every category as they were.
C13_ReadsChangeNothing ==
    [][last'.op \in ServedReads => fs' = fs]_vars

\* An export has answered with a ledger that holds a record, and the
\* directory it read is as it was before the request.
C13_Witness ==
    /\ last.op = "export" /\ RespondedOk
    /\ last.resp.allData[1].unreviewed = Stored
    /\ fs[last.model] = last.pre

\* C14: every operation invoked with a category that is not one of loan and
\* payroll is rejected with an error and leaves the storage of that name as
\* it was, whether or not a directory of that name exists.
C14_UnknownCategoryRejected ==
    (last.op # "none" /\ last.model \notin Models)
    => /\ last.resp.code \notin {0, 200}
       /\ fs[last.model] = last.pre

\* The directory of a category
InCategory(m, p) == Len(p) > 2 /\ SubSeq(p, 1, 2) = Append(DataRoot, m)

\* C15: fetch-document-bytes never serves a file outside the requested
\* category's directory: whatever the name holds, ".." segments and
\* separators included, the request returns the bytes of a file inside that
\* directory or is rejected.
C15_NoTraversal ==
    (last.op = "fetch" /\ RespondedOk) => InCategory(last.model, last.resp.sent)

\* The step is an upload whose stored name is the name of a document that
\* the directory of its model already holds
IngestOfExisting ==
    /\ last'.op = "ingest" /\ last'.hasFile /\ last'.model \in Models
    /\ fs[last'.model].dir
    /\ last'.file \in DOMAIN fs[last'.model].docs

\* C16: ingesting a document whose stored name equals that of a document
\* already in the category fails with 409 and leaves the existing
\* document's bytes and the rest of the Document Store unchanged.
C16_DuplicateRejected ==
    [][IngestOfExisting => (last'.resp.code = 409 /\ fs' = fs)]_vars

\* An upload named "x_y.pdf" was turned away with 409 because an earlier
\* upload named "x y.pdf" is stored under that name; its bytes are in place.
C16_Witness ==
    /\ last.op = "ingest" /\ last.resp.code = 409
    /\ last.raw = <<"x", "_", "y.pdf">> /\ last.file = "x_y.pdf"
    /\ last.model \in Models
    /\ "x_y.pdf" \in DOMAIN fs[last.model].docs
    /\ fs[last.model] = last.pre

\* What load is to yield for a ledger file: its mapping, or the empty
\* mapping when the file is missing or is not the text of a mapping
Degraded(f) == IF f.kind = "json" THEN f.map ELSE EmptyObject

\* C17: load degrades per side and is never fatal: a ledger file that is
\* missing or does not parse to a mapping yields the empty mapping for its
\* side while the other side is returned intact, and list-categories,
\* listCategoryView, getRecord and exportAll complete with a normal response.
C17_LoadDegradesPerSide ==
    last.op \in {"getRecord", "list", "export", "models"}
    => /\ \A m \in Models :
             fs[m].dir => /\ Ledger(m).unreviewed = Degraded(fs[m].result)
                          /\ Ledger(m).reviewed = Degraded(fs[m].reviewed)
       /\ last.resp.code \in {200, 404}

\* C18: ingestion never changes the ledger: the collections load returns
\* for every category are the same after an Ingest request, successful or
\* failed and whatever the accepted file name, as before it.
C18_IngestKeepsLedger ==
    [][last'.op = "ingest"
       => \A m \in DOMAIN fs : readResultsFiles(fs'[m]) = readResultsFiles(fs[m])]_vars

\* C19: on every failure path of Ingest (invalid or missing category, name
\* collision, an I/O error while creating the directory or moving the
\* payload) the temporary file of the upload no longer exists once the
\* error response has been sent.
C19_TemporaryFileRemoved ==
    (last.op = "ingest" /\ last.hasFile /\ ~RespondedOk) => ~last.tmp

\* Moving the payload into the directory threw, the handler answered 500,
\* nothing was stored under the name and the temporary file is gone.
C19_Witness ==
    /\ last.op = "ingest" /\ last.hasFile /\ last.io = "renameFails"
    /\ last.resp.code = 500 /\ ~last.tmp
    /\ last.file \notin DOMAIN fs[last.model].docs

\* The view listCategoryView gives of the category of the last request
ViewNow == GetFiles(fs[last.model])

\* C20: status is the derived one across the read endpoints: for every
\* name, getRecord reports status unreviewed (reviewed) exactly when
\* listCategoryView lists the name as unreviewed (reviewed), and reports
\* NotFound exactly when listCategoryView lists the name in neither list.
C20_StatusAgrees ==
    (last.op = "getRecord" /\ last.file # NoName /\ ViewNow.code = 200)
    => /\ (RespondedOk /\ last.resp.status = "unreviewed")
             <=> last.file \in ViewNow.unreviewed
       /\ (RespondedOk /\ last.resp.status = "reviewed")
             <=> last.file \in ViewNow.reviewed
       /\ last.resp.code = 404
             <=> last.file \notin ViewNow.unreviewed \cup ViewNow.reviewed

\* The status of name derived from the ledger of the loan model
DerivedStatus(name) ==
    IF name \in Keys(Ledger("loan").unreviewed) THEN "unreviewed"
    ELSE IF name \in Keys(Ledger("loan").reviewed) THEN "reviewed"
    ELSE "none"

\* Every getResult the page sent has been answered and applied
Settled == \A i \in 1..Len(reqs) : reqs[i].pc = "applied"

\* C21: in the review page, after every completed user action on the
\* selected document (selecting it, Save, Mark as Reviewed, Move to
\* Unreviewed) fileStatus equals the status derived from the server's
\* ledger, so the Promote and Demote controls offered match the collection
\* the file is in.
C21_StatusFollowsMembership ==
    (ui.selectedFile # NoName /\ Settled)
    => ui.fileStatus = DerivedStatus(ui.selectedFile)

\* C22: every API request eventually receives a response, success or an
\* explicit error, whatever the operation, the name and the content of the
\* ledger files and of the Document Store; no request leaves the service
\* hung or ended without an answer.
C22_EveryRequestAnswered ==
    <>(\A i \in 1..Len(reqs) : reqs[i].pc = "done" /\ reqs[i].resp.code # 0)

\* The body of the last request lacks what its operation needs
LacksNameOrRecord ==
    \/ last.op = "save" /\ (last.file = NoName \/ last.data = Undefined)
    \/ last.op \in {"promote", "demote"} /\ last.file = NoName

\* C23: a Save request whose body lacks the name or lacks the record
\* responds 400 and leaves both persisted collections unchanged; so do
\* Promote and Demote requests that lack the name.
C23_MissingFieldsRejected ==
    LacksNameOrRecord => (last.resp.code = 400 /\ fs[last.model] = last.pre)

\* A Save that names a document but carries no record was answered 400
\* while the ledger holds a record.
C23_Witness ==
    /\ last.op = "save" /\ last.file \in DocNames /\ last.data = Undefined
    /\ last.resp.code = 400
    /\ Keys(PostLedger.unreviewed) # {}
    /\ fs[last.model] = last.pre

\* Name n is a key of the same collections with the same values in l1 and l2
SameEntry(l1, l2, n) ==
    /\ n \in Keys(l1.unreviewed) <=> n \in Keys(l2.unreviewed)
    /\ n \in Keys(l1.reviewed) <=> n \in Keys(l2.reviewed)
    /\ n \in Keys(l1.unreviewed) => l1.unreviewed[n] = l2.unreviewed[n]
    /\ n \in Keys(l1.reviewed) => l1.reviewed[n] = l2.reviewed[n]

\* Request i has been handled with an ok response and the other request of
\* the pair has not been handled yet: the directory went from start to
\* fs["loan"] by this one operation
HandledAlone(i) ==
    /\ Len(reqs) = 2 /\ reqs[i].op \in Mutating
    /\ reqs[i].pc = "done" /\ reqs[i].resp.code = 200
    /\ reqs[3 - i].pc # "done"

\* C24: a successful Save(name, r), Promote(name) or Demote(name) changes
\* nothing but the entry for name: every other name is a key of the same
\* collections with the same record value before and after the operation.
C24_OtherEntriesKept ==
    \A i \in 1..2 :
       HandledAlone(i)
       => \A n \in ConcNames \ {reqs[i].file} :
             SameEntry(readResultsFiles(start), Ledger("loan"), n)

\* Promote(a.pdf) moved a.pdf to reviewed while b.pdf, which had a record in
\* unreviewed, still has it there.
C24_Witness ==
    /\ HandledAlone(1) /\ reqs[1].op = "promote" /\ reqs[1].file = "a.pdf"
    /\ "b.pdf" \in Keys(readResultsFiles(start).unreviewed)
    /\ "a.pdf" \in Keys(Ledger("loan").reviewed)
    /\ "a.pdf" \notin Keys(Ledger("loan").unreviewed)
    /\ HoldsIn(Ledger("loan").unreviewed, "b.pdf", readResultsFiles(start).unreviewed["b.pdf"])

\* C25: in the review page the record submitted by Save belongs to the
\* selected file: whatever the order in which getResult responses arrive, a
\* successful Save never writes the record of one document under the name
\* of another.
C25_SaveSubmitsOwnRecord ==
    (last.op = "save" /\ RespondedOk)
    => \A n \in UiDocNames \ {last.file} : last.data # RecordOf(n)

\* Names made of admitted pieces only
MaxPieces == 3
RECURSIVE Concat(_)
Concat(pieces) == IF pieces = <<>> THEN "" ELSE Head(pieces) \o Concat(Tail(pieces))
AdmittedNames ==
    {Concat(pieces) : pieces \in UNION {[1..k -> Admitted] : k \in 1..MaxPieces}}

\* The directory d with one more entry, name, holding payload
WithEntry(d, name, payload) ==
    [d EXCEPT !.docs = [n \in DOMAIN d.docs \cup {name} |->
                           IF n = name THEN payload ELSE d.docs[n]]]

\* C26: Ingest never writes outside the target category's directory: the
\* stored name is made of characters from [a-zA-Z0-9._-] only and is neither
\* '.' nor '..', and a successful Ingest leaves every other directory as it
\* was and the target directory as it was plus exactly one new entry under
\* the stored name, no existing entry being overwritten.
C26_IngestStaysInside ==
    [][(last'.op = "ingest" /\ last'.resp.code = 200)
       => LET n == last'.resp.filename
              c == last'.model
              before == IF fs[c].dir THEN fs[c] ELSE [NoDir EXCEPT !.dir = TRUE]
          IN /\ n \in AdmittedNames \ {".", ".."}
             /\ n \notin DOMAIN before.docs
             /\ fs'[c] = WithEntry(before, n, last'.payload)
             /\ \A m \in DOMAIN fs \ {c} : fs'[m] = fs[m]]_vars

\* An upload named as a path out of the directory has been stored, as an
\* entry of the directory under a name without a separator.
C26_Witness ==
    /\ last.op = "ingest" /\ RespondedOk
    /\ last.raw = <<"..", "/", "x">>
    /\ last.resp.filename = ".._x"
    /\ ".._x" \in DOMAIN fs[last.model].docs
    /\ ".._x" \notin DOMAIN last.pre.docs

\* The name request r is stored under
StoredName(r) == Sanitize(OriginalName(r.raw))

\* Both uploads have been answered, they went into the same category and
\* their stored names are equal
SameTarget ==
    /\ \A i \in 1..2 : reqs[i].pc = "done"
    /\ reqs[1].model = reqs[2].model
    /\ StoredName(reqs[1]) = StoredName(reqs[2])

\* C27: of two concurrent Ingest requests into the same category whose
\* stored names are equal, at most one responds ok, the other (no call of
\* its handler having failed) responds AlreadyExists, and the bytes stored
\* under the name afterwards are those of the request that responded ok,
\* under every interleaving.
C27_OneIngestWins ==
    SameTarget
    => /\ ~(reqs[1].resp.code = 200 /\ reqs[2].resp.code = 200)
       /\ \A i \in 1..2 :
             reqs[i].resp.code = 200
             => /\ reqs[3 - i].io = "ok" => reqs[3 - i].resp.code = 409
                /\ HoldsIn(fs[reqs[i].model].docs, StoredName(reqs[i]), reqs[i].payload)

\* The upload that was sent second was handled first and stored under
\* x_y.pdf; the other one, sent under a different name that is stored
\* under the same one, was turned away.
C27_Witness ==
    /\ SameTarget
    /\ reqs[1].raw # reqs[2].raw
    /\ reqs[2].resp.code = 200 /\ reqs[1].resp.code = 409
    /\ fs[reqs[2].model].docs["x_y.pdf"] = "second"

\* How many of the three lists of view v report name n
ListsReporting(v, n) ==
    Cardinality({k \in {"unreviewed", "reviewed", "noResult"} : n \in v[k]})

\* C28: an ingested document becomes visible: after an Ingest into category
\* c that responds ok with stored name n, listCategoryView(c) reports n in
\* exactly one of its three lists and list-categories includes n among c's
\* document names.
C28_IngestedIsListed ==
    (last.op = "ingest" /\ RespondedOk)
    => LET n == last.resp.filename
           v == GetFiles(fs[last.model])
           ms == GetModels(fs).models
       IN /\ v.code = 200
          /\ ListsReporting(v, n) = 1
          /\ \E i \in 1..Len(ms) : ms[i].model = last.model /\ n \in ms[i].pdfs

\* C29: Save is idempotent: for every ledger state, name and accepted
\* record value r, a second Save(name, r) directly after a successful one
\* leaves the persisted ledger as the first one left it.
C29_SaveIdempotent ==
    (last.op = "save" /\ RespondedOk)
    => LET again == PostResult(fs[last.model], last.file, last.data, "ok")
       IN /\ again.resp.code = 200
          /\ readResultsFiles(again.d) = Ledger(last.model)
          /\ again.d = fs[last.model]

\* C30: categories are isolated: an operation addressed to one category
\* leaves the ledger files and the documents of every other category as
\* they were, for every category identifier the API accepts.
C30_CategoriesIsolated ==
    [][last'.op # "none"
       => \A c \in DOMAIN fs : <<c>> # last'.addressed => fs'[c] = fs[c]]_vars

====
